---- MODULE Spec2Model ----
(***************************************************************************)
(* madaa: the concurrent aggregation core of src/main.go.                  *)
(*                                                                         *)
(* analyzeDirectory counts the files of a tree, then starts a progress     *)
(* ticker, numWorkers workers and one producer; the producer walks the     *)
(* tree and sends every path into pathChan, the workers Lstat each path    *)
(* and merge it into the shared Stats under stats.mu.                      *)
(*                                                                         *)
(* Strings are sequences of one-character strings, times are hours since   *)
(* an arbitrary origin, file modes are the integers of os.FileMode.        *)
(***************************************************************************)
EXTENDS Integers, Sequences, FiniteSets, TLC

VARIABLES
    stats,          \* the Stats aggregate (src/main.go:133)
    maxFiles,       \* Config.Count, handed to analyzeDirectory as maxFiles
    clock,          \* wall clock (hours), read by time.Since
    crashed,        \* a goroutine panicked (index out of range)
    merged,         \* history: the merges completed (node, ReadDir ok, instant)
    countArg,       \* the --count argument: <<>> when absent, else <<N>>
    root,           \* the path given on the command line
    rootOk,         \* os.Lstat(root) of WalkDir succeeds
    unreadable,     \* directories whose os.ReadDir fails
    mainpc,         \* analyzeDirectory's position
    totalFiles,     \* the counter of the first pass
    processedFiles, \* the counter the workers increment
    ctxDone,        \* the errgroup's context is cancelled
    gErr,           \* the errgroup's first error
    retErr,         \* the error analyzeDirectory returns
    finalPlaced,    \* history: the final snapshot was placed on progressChan
    pathChan,       \* the paths in flight
    chanClosed,     \* pathChan is closed
    prodpc,         \* the producer's position
    prodIdx,        \* the producer's place in the walk
    wpc,            \* each worker's position
    wpath,          \* each worker's current path
    mu,             \* the holder of stats.mu, 0 when free
    statFailed,     \* history: the paths whose os.Lstat by a worker failed
    rpc,            \* the progress ticker's position
    rproc,          \* the processed value the ticker loaded (0 outside a tick)
    progressChan,   \* the snapshots waiting for the observer
    ui              \* the observer: the bubbletea model

(***************************************************************************)
(* Bounds of the model.                                                    *)
(***************************************************************************)
MaxCount == 3       \* largest --count value of a sequence of merges
MaxMerges == 4      \* longest sequence of merges
MaxScanCount == 1   \* largest --count value of a scan
MaxStatFails == 1   \* most os.Lstat failures of workers in one scan
MaxTicks == 1       \* hours the wall clock may advance during a scan
MaxTypeCount == 11  \* largest --count value of a sequence of offers of one type
MaxOffers == 11     \* longest sequence of offers of one type
MaxHeapCount == 4   \* largest --count value of a sequence of offers to one heap
MaxHeapOffers == 6  \* longest sequence of offers to one heap

(***************************************************************************)
(* Strings.                                                                *)
(***************************************************************************)
Upper == <<"A", "B", "D", "M", "R", "T", "X">>
Lower == <<"a", "b", "d", "m", "r", "t", "x">>

\* strings.ToLower for one character
lowerChar(c) ==
    IF \E i \in 1..Len(Upper) : Upper[i] = c
    THEN Lower[CHOOSE i \in 1..Len(Upper) : Upper[i] = c]
    ELSE c

\* strings.ToLower
ToLower(s) == [i \in 1..Len(s) |-> lowerChar(s[i])]

\* index of the last "." of s, 0 when there is none
lastDot(s) ==
    IF \E i \in 1..Len(s) : s[i] = "."
    THEN CHOOSE i \in 1..Len(s) : s[i] = "." /\ \A j \in (i+1)..Len(s) : s[j] # "."
    ELSE 0

\* filepath.Ext: the suffix beginning at the final dot of the last element
Ext(name) == IF lastDot(name) = 0 THEN <<>> ELSE SubSeq(name, lastDot(name), Len(name))

\* strings.TrimSuffix(filename, filepath.Ext(filename))
trimExt(name) == SubSeq(name, 1, Len(name) - Len(Ext(name)))

Separators == {",", "_", "-", ".", " "}

RECURSIVE fields(_, _)
\* strings.Fields after the replacer: the maximal runs without a separator;
\* cur is the run being read
fields(s, cur) ==
    IF s = <<>> THEN (IF cur = <<>> THEN <<>> ELSE <<cur>>)
    ELSE IF Head(s) \in Separators
         THEN (IF cur = <<>> THEN <<>> ELSE <<cur>>) \o fields(Tail(s), <<>>)
         ELSE fields(Tail(s), Append(cur, Head(s)))

extractWords(filename) == fields(trimExt(filename), <<>>)

NoExtension == <<"n", "o", " ", "e", "x", "t", "e", "n", "s", "i", "o", "n">>

\* the ext of processFile: lower-cased extension, or the sentinel
normExt(name) == IF Ext(name) = <<>> THEN NoExtension ELSE ToLower(Ext(name))

\* strings.HasPrefix(filename, ".")
isHidden(name) == Len(name) > 0 /\ name[1] = "."

(***************************************************************************)
(* Integers of file modes.                                                 *)
(***************************************************************************)
RECURSIVE BitAnd(_, _)
BitAnd(a, b) ==
    IF a = 0 \/ b = 0 THEN 0
    ELSE (a % 2) * (b % 2) + 2 * BitAnd(a \div 2, b \div 2)

ModeSymlink == 134217728
ExecBits == 73
OwnerWrite == 128

(***************************************************************************)
(* The file system: node 1 is the top directory, parent names the         *)
(* directory a node is an entry of. WalkDir visits the entries of a       *)
(* directory in lexical order, which is the order of the node ids.        *)
(***************************************************************************)
Now0 == 10000

Node(name, isDir, parent, size, mode, mtime, year, atime) ==
    [name |-> name, isDir |-> isDir, parent |-> parent, size |-> size,
     mode |-> mode, mtime |-> mtime, year |-> year, atime |-> atime]

Tree == <<
    Node(<<"r">>, TRUE, 0, 4096, 493, Now0 - 10, 2024, Now0 - 1),
    Node(<<"M", "y", "_", "a", ".", "T", "X", "T">>, FALSE, 1, 2048, 420,
         Now0 - 720, 2024, Now0 - 191),
    Node(<<".", "b">>, FALSE, 1, 0, 292, Now0 - 4320, 2023, Now0 - 743),
    Node(<<"d">>, TRUE, 1, 4096, 493, Now0 - 10, 2024, Now0 - 1),
    Node(<<"m", ".", "t", "x", "t">>, FALSE, 4, 5000000, 134218239,
         Now0 - 4320, 2023, Now0 - 2183),
    Node(<<".", "s">>, TRUE, 4, 4096, 493, Now0 - 10, 2024, Now0 - 1),
    Node(<<"R", "x">>, FALSE, 6, 2048, 493, Now0 - 5000, 2022, Now0 - 5000),
    Node(<<"r", "-", "t", ".", "m", "d">>, FALSE, 1, 1024, 292,
         Now0 - 5000, 2022, Now0 - 100),
    Node(<<"T", "h", "u", "m", "b", "s", ".", "d", "b">>, FALSE, 1, 104857600,
         420, Now0 - 720, 2024, Now0 - 100)
>>

Nodes == 1..Len(Tree)
FileNodes == {n \in Nodes : ~Tree[n].isDir}
DirNodes == {n \in Nodes : Tree[n].isDir}

\* what processFile and the analyze functions derive from a node's name and
\* mode, node by node
extOf == [n \in Nodes |-> normExt(Tree[n].name)]
wordsOf == [n \in Nodes |-> extractWords(Tree[n].name)]
hiddenOf == [n \in Nodes |-> isHidden(Tree[n].name)]
execOf == [n \in Nodes |-> BitAnd(Tree[n].mode, ExecBits) # 0]
readOnlyOf == [n \in Nodes |-> BitAnd(Tree[n].mode, OwnerWrite) = 0]
symlinkOf == [n \in Nodes |-> BitAnd(Tree[n].mode, ModeSymlink) # 0]

(***************************************************************************)
(* Maps of the aggregate: functions whose domain is the set of keys        *)
(* present.                                                                *)
(***************************************************************************)
EmptyMap == <<>>

Get(m, k) == IF k \in DOMAIN m THEN m[k] ELSE 0

\* m[k] += d on a Go map (a missing key reads as zero)
Add(m, k, d) ==
    IF k \in DOMAIN m THEN [m EXCEPT ![k] = @ + d]
    ELSE [x \in DOMAIN m \cup {k} |-> IF x = k THEN d ELSE m[x]]

Put(m, k, v) == [x \in DOMAIN m \cup {k} |-> IF x = k THEN v ELSE m[x]]

RECURSIVE SumMap(_)
SumMap(m) ==
    IF DOMAIN m = {} THEN 0
    ELSE LET k == CHOOSE x \in DOMAIN m : TRUE
         IN m[k] + SumMap([x \in DOMAIN m \ {k} |-> m[x]])

(***************************************************************************)
(* FileSizeHeap and container/heap on it. Indices are those of the Go      *)
(* slice (from 0); At reads h[i].                                          *)
(***************************************************************************)
FileSize(path, size, type) == [Path |-> path, Size |-> size, Type |-> type]

At(h, i) == h[i + 1]

\* FileSizeHeap.Less
Less(h, i, j) == At(h, i).Size < At(h, j).Size

\* FileSizeHeap.Swap
Swap(h, i, j) == [h EXCEPT ![i + 1] = h[j + 1], ![j + 1] = h[i + 1]]

RECURSIVE up(_, _)
\* container/heap.up: (j-1)/2 truncates toward zero, so the parent of 0 is 0
up(h, j) ==
    LET i == IF j = 0 THEN 0 ELSE (j - 1) \div 2
    IN IF i = j \/ ~Less(h, j, i) THEN h ELSE up(Swap(h, i, j), i)

RECURSIVE down(_, _, _)
\* container/heap.down
down(h, i, n) ==
    LET j1 == 2 * i + 1
    IN IF j1 >= n THEN h
       ELSE LET j == IF j1 + 1 < n /\ Less(h, j1 + 1, j1) THEN j1 + 1 ELSE j1
            IN IF ~Less(h, j, i) THEN h ELSE down(Swap(h, i, j), j, n)

\* a Push that appends and does not sift the new element up
heapPushAppends(h, x) == Append(h, x)

\* heap.Push: FileSizeHeap.Push appends, then up from the last index
heapPush(h, x) == up(Append(h, x), Len(h))

\* a Pop that drops the last element of the slice without the swap and the
\* sift down of heap.Pop
heapPopDropsLast(h) == SubSeq(h, 1, Len(h) - 1)

\* heap.Pop: swap first and last, down over the first n, FileSizeHeap.Pop
\* drops the last element
heapPop(h) ==
    LET n == Len(h) - 1
    IN SubSeq(down(Swap(h, 0, n), 0, n), 1, n)

\* min(maxFiles, 10), the capacity of a per-type heap
PerTypeLimit == 10
topFilesPerType(mf) == IF mf < PerTypeLimit THEN mf ELSE PerTypeLimit

\* the if / else-if of processFile on one heap of capacity cap; on a full
\* heap of capacity <= 0 the else-if reads element 0 of an empty slice
offerPanics(h, cap) == ~(Len(h) < cap) /\ Len(h) = 0

\* an offer that still pushes onto a heap that is at its capacity
offerOverfills(h, cap, x) ==
    IF Len(h) <= cap THEN heapPush(h, x)
    ELSE IF x.Size > At(h, 0).Size THEN heapPush(heapPop(h), x)
    ELSE h

offer(h, cap, x) ==
    IF Len(h) < cap THEN heapPush(h, x)
    ELSE IF x.Size > At(h, 0).Size THEN heapPush(heapPop(h), x)
    ELSE h

(***************************************************************************)
(* Stats and the merge of one node.                                        *)
(***************************************************************************)
NoAge == [Path |-> 0, ModTime |-> 0]

InitStats ==
    [WordFreq |-> EmptyMap, TypeFreq |-> EmptyMap, TypeSizes |-> EmptyMap,
     Permissions |-> EmptyMap, RecentMods |-> 0, TotalFiles |-> 0,
     TotalSize |-> 0, LargestFiles |-> <<>>, LargestByType |-> EmptyMap,
     EmptyFiles |-> 0, SizeDistribution |-> EmptyMap, DirDepths |-> EmptyMap,
     FilesPerDir |-> EmptyMap, EmptyDirs |-> 0, OldestFile |-> NoAge,
     NewestFile |-> NoAge, YearDistribution |-> EmptyMap, StaleFiles |-> 0,
     HiddenFiles |-> 0, SystemFiles |-> 0, Symlinks |-> 0,
     AccessTimes |-> EmptyMap, WriteProtected |-> 0, TotalDirs |-> 0]

RECURSIVE countWords(_, _)
\* the loop over words of processFile
countWords(wf, words) ==
    IF words = <<>> THEN wf
    ELSE countWords(IF Len(Head(words)) > 1 THEN Add(wf, ToLower(Head(words)), 1)
                    ELSE wf,
                    Tail(words))

\* processFile, lines 533-534
pfTotals(s, p) ==
    [s EXCEPT !.TotalFiles = @ + 1, !.TotalSize = @ + Tree[p].size]

\* processFile, lines 536-550
pfTypes(s, p) ==
    LET ext == extOf[p]
    IN [s EXCEPT !.WordFreq = countWords(@, wordsOf[p]),
                 !.TypeFreq = Add(@, ext, 1),
                 !.TypeSizes = Add(@, ext, Tree[p].size)]

\* processFile, lines 552-557 panic
pfLargestPanics(s, mf) == offerPanics(s.LargestFiles, mf)

\* processFile, lines 552-557
pfLargest(s, p, mf) ==
    [s EXCEPT !.LargestFiles =
        offer(@, mf, FileSize(p, Tree[p].size, extOf[p]))]

\* a processFile that keys the per-type tracker by the extension as written
pfByTypeRawExt(s, p, mf) ==
    LET ext == Ext(Tree[p].name)
        typeHeap == IF ext \in DOMAIN s.LargestByType THEN s.LargestByType[ext]
                    ELSE <<>>
    IN [s EXCEPT !.LargestByType =
            Put(@, ext, offer(typeHeap, topFilesPerType(mf),
                              FileSize(p, Tree[p].size, ext)))]

\* processFile, lines 559-571
pfByType(s, p, mf) ==
    LET ext == extOf[p]
        typeHeap == IF ext \in DOMAIN s.LargestByType THEN s.LargestByType[ext]
                    ELSE <<>>
    IN [s EXCEPT !.LargestByType =
            Put(@, ext, offer(typeHeap, topFilesPerType(mf),
                              FileSize(p, Tree[p].size, ext)))]

\* processFilePermissions
processFilePermissions(s, p) ==
    LET s1 == IF execOf[p]
              THEN [s EXCEPT !.Permissions = Add(@, "executable", 1)]
              ELSE s
    IN IF readOnlyOf[p]
       THEN [s1 EXCEPT !.Permissions = Add(@, "read-only", 1),
                       !.WriteProtected = @ + 1]
       ELSE s1

RecentHours == 720
StaleHours == 4320

\* processFile, lines 576-578
pfRecent(s, p, now) ==
    IF now - Tree[p].mtime <= RecentHours THEN [s EXCEPT !.RecentMods = @ + 1]
    ELSE s

KiB == 1024
MiB == 1048576
HundredMiB == 104857600

\* a bucketer whose thresholds belong to the lower bucket
sizeBucketClosed(size) ==
    IF size <= KiB THEN "tiny"
    ELSE IF size <= MiB THEN "small"
    ELSE IF size <= HundredMiB THEN "medium"
    ELSE "large"

sizeBucket(size) ==
    IF size < KiB THEN "tiny"
    ELSE IF size < MiB THEN "small"
    ELSE IF size < HundredMiB THEN "medium"
    ELSE "large"

\* an analyzeSizes that counts no file of the medium bucket
analyzeSizesSkipsMedium(s, p) ==
    LET size == Tree[p].size
        s1 == IF size = 0 THEN [s EXCEPT !.EmptyFiles = @ + 1] ELSE s
    IN IF sizeBucket(size) = "medium" THEN s1
       ELSE [s1 EXCEPT !.SizeDistribution = Add(@, sizeBucket(size), 1)]

analyzeSizes(s, p) ==
    LET size == Tree[p].size
        s1 == IF size = 0 THEN [s EXCEPT !.EmptyFiles = @ + 1] ELSE s
    IN [s1 EXCEPT !.SizeDistribution = Add(@, sizeBucket(size), 1)]

\* analyzeAge with the comparisons of the extremum records made non-strict
analyzeAgeLastWins(s, p, now) ==
    LET modTime == Tree[p].mtime
        s1 == IF s.OldestFile = NoAge \/ modTime <= s.OldestFile.ModTime
              THEN [s EXCEPT !.OldestFile = [Path |-> p, ModTime |-> modTime]]
              ELSE s
        s2 == IF s1.NewestFile = NoAge \/ modTime >= s1.NewestFile.ModTime
              THEN [s1 EXCEPT !.NewestFile = [Path |-> p, ModTime |-> modTime]]
              ELSE s1
        s3 == [s2 EXCEPT !.YearDistribution = Add(@, Tree[p].year, 1)]
    IN IF now - modTime > StaleHours THEN [s3 EXCEPT !.StaleFiles = @ + 1]
       ELSE s3

analyzeAge(s, p, now) ==
    LET modTime == Tree[p].mtime
        s1 == IF s.OldestFile = NoAge \/ modTime < s.OldestFile.ModTime
              THEN [s EXCEPT !.OldestFile = [Path |-> p, ModTime |-> modTime]]
              ELSE s
        s2 == IF s1.NewestFile = NoAge \/ modTime > s1.NewestFile.ModTime
              THEN [s1 EXCEPT !.NewestFile = [Path |-> p, ModTime |-> modTime]]
              ELSE s1
        s3 == [s2 EXCEPT !.YearDistribution = Add(@, Tree[p].year, 1)]
    IN IF now - modTime > StaleHours THEN [s3 EXCEPT !.StaleFiles = @ + 1]
       ELSE s3

analyzeSpecialFiles(s, p) ==
    LET s1 == IF hiddenOf[p] THEN [s EXCEPT !.HiddenFiles = @ + 1]
              ELSE s
    IN IF symlinkOf[p]
       THEN [s1 EXCEPT !.Symlinks = @ + 1]
       ELSE s1

\* int(x) of a float: truncation toward zero
truncDiv(a, b) == IF a >= 0 THEN a \div b ELSE -((-a) \div b)

accessBucket(p, now) ==
    LET daysSinceAccess == truncDiv(now - Tree[p].atime, 24)
    IN IF daysSinceAccess <= 7 THEN "last 7 days"
       ELSE IF daysSinceAccess <= 30 THEN "last 30 days"
       ELSE IF daysSinceAccess <= 90 THEN "last 90 days"
       ELSE "older than 90 days"

analyzeAccessPatterns(s, p, now) ==
    [s EXCEPT !.AccessTimes = Add(@, accessBucket(p, now), 1)]

\* processFile, lines 573-583
pfRest(s, p, now) ==
    analyzeAccessPatterns(
        analyzeSpecialFiles(
            analyzeAge(
                analyzeSizes(pfRecent(processFilePermissions(s, p), p, now), p),
                p, now),
            p),
        p, now)

\* processFile panics: the global heap first, then the per-type heap
processFilePanics(s, mf) ==
    pfLargestPanics(s, mf) \/ offerPanics(<<>>, topFilesPerType(mf))

\* processFile as a whole (when it does not panic)
processFile(s, p, mf, now) ==
    pfRest(pfByType(pfLargest(pfTypes(pfTotals(s, p), p), p, mf), p, mf), p, now)

\* the directory entries os.ReadDir(path) returns
entries(p) == {n \in Nodes : Tree[n].parent = p}

RECURSIVE depthOf(_, _)
\* strings.Count(relPath, separator) for a path below the root rt
depthOf(p, rt) ==
    IF Tree[p].parent = rt \/ Tree[p].parent = 0 THEN 0
    ELSE 1 + depthOf(Tree[p].parent, rt)

\* processDirectory, lines 499-509
pdHead(s, p, rt) ==
    LET s1 == [s EXCEPT !.TotalDirs = @ + 1]
        s2 == IF p # rt THEN [s1 EXCEPT !.DirDepths = Put(@, p, depthOf(p, rt))]
              ELSE s1
    IN IF hiddenOf[p] /\ p # rt
       THEN [s2 EXCEPT !.HiddenFiles = @ + 1]
       ELSE s2

\* processDirectory, lines 511-526; ok is err == nil of os.ReadDir
pdReadDir(s, p, ok) ==
    IF ~ok THEN s
    ELSE LET fileCount == Cardinality({n \in entries(p) : ~Tree[n].isDir})
             s1 == IF entries(p) = {} THEN [s EXCEPT !.EmptyDirs = @ + 1] ELSE s
         IN IF fileCount > 0
            THEN [s1 EXCEPT !.FilesPerDir = Put(@, p, fileCount)]
            ELSE s1

processDirectory(s, p, rt, ok) == pdReadDir(pdHead(s, p, rt), p, ok)

(***************************************************************************)
(* filepath.WalkDir: the calls of the walk function, in order. Each call   *)
(* is a node and whether the function is handed a nil err.                 *)
(***************************************************************************)
Call(p, ok) == [node |-> p, ok |-> ok]

RECURSIVE walkDir(_, _)
RECURSIVE walkAll(_, _)

\* the calls for the nodes ps (ascending ids: lexical order)
walkAll(ps, unr) ==
    IF ps = {} THEN <<>>
    ELSE LET p == CHOOSE x \in ps : \A y \in ps : x <= y
         IN walkDir(p, unr) \o walkAll(ps \ {p}, unr)

\* walkDir: the node itself, a second call with the ReadDir error of an
\* unreadable directory, else the entries
walkDir(p, unr) ==
    IF ~Tree[p].isDir THEN <<Call(p, TRUE)>>
    ELSE IF p \in unr THEN <<Call(p, TRUE), Call(p, FALSE)>>
    ELSE <<Call(p, TRUE)>> \o walkAll(entries(p), unr)

\* WalkDir: a root that cannot be opened is one call with the error
WalkDir(rt, ok, unr) == IF ok THEN walkDir(rt, unr) ELSE <<Call(rt, FALSE)>>

\* the first pass of analyzeDirectory
countFiles(calls) ==
    Cardinality({i \in 1..Len(calls) : calls[i].ok /\ ~Tree[calls[i].node].isDir})

(***************************************************************************)
(* The pipeline.                                                           *)
(***************************************************************************)
numWorkers == 2
PathChanCap == 1
ProgressChanCap == 1

Workers == 1..numWorkers

\* a completed merge: the node, err == nil of its ReadDir, the clock then
Merged(p, ok, at) == [node |-> p, ok |-> ok, at |-> at]

Snapshot(processed, total) == [processed |-> processed, total |-> total]

aggVars == <<stats, maxFiles, clock, crashed, merged>>
fsVars == <<countArg, root, rootOk, unreadable>>
mainVars == <<mainpc, totalFiles, retErr, finalPlaced>>
groupVars == <<ctxDone, gErr>>
chanVars == <<pathChan, chanClosed>>
prodVars == <<prodpc, prodIdx>>
workVars == <<wpc, wpath, mu, processedFiles, statFailed>>
repVars == <<rpc, rproc, progressChan>>
vars == <<aggVars, fsVars, mainVars, groupVars, chanVars, prodVars, workVars,
          repVars, ui>>

Calls == WalkDir(root, rootOk, unreadable)

Running == ~crashed /\ ~ui.quit

\* errgroup.Group.Go: the first non-nil error is kept and cancels the context
groupReturn(err) ==
    IF err # "nil" /\ gErr = "nil"
    THEN gErr' = err /\ ctxDone' = TRUE
    ELSE UNCHANGED groupVars

InitUI == [analyzing |-> TRUE, done |-> FALSE, err |-> "nil", quit |-> FALSE,
           processedFiles |-> 0, totalFiles |-> 0]

InitIdle ==
    /\ stats = InitStats
    /\ clock = Now0
    /\ crashed = FALSE
    /\ merged = {}
    /\ totalFiles = 0
    /\ processedFiles = 0
    /\ ctxDone = FALSE
    /\ gErr = "nil"
    /\ retErr = "nil"
    /\ finalPlaced = FALSE
    /\ pathChan = <<>>
    /\ chanClosed = FALSE
    /\ prodpc = "idle"
    /\ prodIdx = 1
    /\ wpc = [w \in Workers |-> "idle"]
    /\ wpath = [w \in Workers |-> 0]
    /\ mu = 0
    /\ statFailed = {}
    /\ rpc = "idle"
    /\ rproc = 0
    /\ progressChan = <<>>
    /\ ui = InitUI

ScanRoots == {4}

\* flag.IntVar(&count, "count", 3, ...): the value of --count when absent
DefaultCount == 3

\* the command lines: --count absent, or --count N
CountArgs(max) == {<<>>} \cup {<<n>> : n \in 0..max}

\* flag.Parse(): count keeps its default unless --count is given
flagCount(arg) == IF arg = <<>> THEN DefaultCount ELSE arg[1]

Init ==
    /\ InitIdle
    /\ countArg \in CountArgs(MaxScanCount)
    /\ maxFiles = flagCount(countArg)
    /\ root \in ScanRoots
    /\ rootOk \in BOOLEAN
    /\ unreadable \in SUBSET {d \in DirNodes : Tree[d].parent = root}
    /\ mainpc = "count"

\* analyzeDirectory, lines 392-402: the first pass
CountPass ==
    /\ Running /\ mainpc = "count"
    /\ totalFiles' = countFiles(Calls)
    /\ mainpc' = "spawn"
    /\ UNCHANGED <<aggVars, fsVars, retErr, finalPlaced, groupVars, chanVars,
                   prodVars, workVars, repVars, ui>>

\* analyzeDirectory, lines 404-457: the ticker, the workers and the producer
\* are started
Spawn ==
    /\ Running /\ mainpc = "spawn"
    /\ mainpc' = "wait"
    /\ rpc' = "select"
    /\ wpc' = [w \in Workers |-> "select"]
    /\ prodpc' = "walk"
    /\ UNCHANGED <<aggVars, fsVars, totalFiles, retErr, finalPlaced,
                   groupVars, chanVars, prodIdx, wpath, mu, processedFiles, statFailed, rproc,
                   progressChan, ui>>

\* a walk function that returns the error it is called with
ProducerSkipFatal ==
    /\ Running /\ prodpc = "walk" /\ prodIdx <= Len(Calls)
    /\ ~Calls[prodIdx].ok
    /\ chanClosed' = TRUE
    /\ prodpc' = "returned"
    /\ groupReturn("walk")
    /\ UNCHANGED <<aggVars, fsVars, mainVars, pathChan, prodIdx, workVars,
                   repVars, ui>>

\* the walk function is called with an error: return nil
ProducerSkip ==
    /\ Running /\ prodpc = "walk" /\ prodIdx <= Len(Calls)
    /\ ~Calls[prodIdx].ok
    /\ prodIdx' = prodIdx + 1
    /\ UNCHANGED <<aggVars, fsVars, mainVars, groupVars, chanVars, prodpc,
                   workVars, repVars, ui>>

\* the walk function, lines 450-455: the select of the producer
ProducerSelect ==
    /\ Running /\ prodpc = "walk" /\ prodIdx <= Len(Calls)
    /\ Calls[prodIdx].ok
    /\ \/ \* case <-ctx.Done(): the walk ends with ctx.Err(), the deferred
          \* close runs and the group gets the error
          /\ ctxDone
          /\ chanClosed' = TRUE
          /\ prodpc' = "returned"
          /\ groupReturn("canceled")
          /\ UNCHANGED <<pathChan, prodIdx>>
       \/ \* case pathChan <- path
          /\ Len(pathChan) < PathChanCap
          /\ pathChan' = Append(pathChan, Calls[prodIdx].node)
          /\ prodIdx' = prodIdx + 1
          /\ UNCHANGED <<groupVars, chanClosed, prodpc>>
    /\ UNCHANGED <<aggVars, fsVars, mainVars, workVars, repVars, ui>>

\* a producer that returns from the walk and leaves pathChan open
ProducerFinishNoClose ==
    /\ Running /\ prodpc = "walk" /\ prodIdx > Len(Calls)
    /\ prodpc' = "returned"
    /\ groupReturn("nil")
    /\ UNCHANGED <<aggVars, fsVars, mainVars, chanVars, prodIdx, workVars,
                   repVars, ui>>

\* the walk is over: the deferred close(pathChan), return nil
ProducerFinish ==
    /\ Running /\ prodpc = "walk" /\ prodIdx > Len(Calls)
    /\ chanClosed' = TRUE
    /\ prodpc' = "returned"
    /\ groupReturn("nil")
    /\ UNCHANGED <<aggVars, fsVars, mainVars, pathChan, prodIdx, workVars,
                   repVars, ui>>

\* a worker that returns as soon as the channel is closed, drained or not
WorkerSelectNoDrain(w) ==
    /\ Running /\ wpc[w] = "select"
    /\ \/ /\ ctxDone
          /\ wpc' = [wpc EXCEPT ![w] = "returned"]
          /\ groupReturn("canceled")
          /\ UNCHANGED <<chanVars, wpath>>
       \/ /\ pathChan # <<>>
          /\ wpath' = [wpath EXCEPT ![w] = Head(pathChan)]
          /\ pathChan' = Tail(pathChan)
          /\ wpc' = [wpc EXCEPT ![w] = "lstat"]
          /\ UNCHANGED <<groupVars, chanClosed>>
       \/ /\ chanClosed
          /\ wpc' = [wpc EXCEPT ![w] = "returned"]
          /\ groupReturn("nil")
          /\ UNCHANGED <<chanVars, wpath>>
    /\ UNCHANGED <<aggVars, fsVars, mainVars, prodVars, mu, processedFiles,
                   statFailed, repVars, ui>>

\* processWorker, lines 472-478: the select of a worker
WorkerSelect(w) ==
    /\ Running /\ wpc[w] = "select"
    /\ \/ \* case <-ctx.Done(): return ctx.Err()
          /\ ctxDone
          /\ wpc' = [wpc EXCEPT ![w] = "returned"]
          /\ groupReturn("canceled")
          /\ UNCHANGED <<chanVars, wpath>>
       \/ \* case path, ok := <-pathChan with ok
          /\ pathChan # <<>>
          /\ wpath' = [wpath EXCEPT ![w] = Head(pathChan)]
          /\ pathChan' = Tail(pathChan)
          /\ wpc' = [wpc EXCEPT ![w] = "lstat"]
          /\ UNCHANGED <<groupVars, chanClosed>>
       \/ \* the channel is closed and drained, !ok: return nil
          /\ pathChan = <<>> /\ chanClosed
          /\ wpc' = [wpc EXCEPT ![w] = "returned"]
          /\ groupReturn("nil")
          /\ UNCHANGED <<chanVars, wpath>>
    /\ UNCHANGED <<aggVars, fsVars, mainVars, prodVars, mu, processedFiles,
                   statFailed, repVars, ui>>

\* a worker that returns the error of os.Lstat to the group
WorkerLstatFatal(w) ==
    /\ Running /\ wpc[w] = "lstat"
    /\ \/ /\ Cardinality(statFailed) < MaxStatFails
          /\ statFailed' = statFailed \cup {wpath[w]}
          /\ wpc' = [wpc EXCEPT ![w] = "returned"]
          /\ groupReturn("lstat")
       \/ /\ wpc' = [wpc EXCEPT ![w] =
                       IF Tree[wpath[w]].isDir THEN "dlock" ELSE "flock"]
          /\ UNCHANGED <<statFailed, groupVars>>
    /\ UNCHANGED <<aggVars, fsVars, mainVars, chanVars, prodVars,
                   wpath, mu, processedFiles, repVars, ui>>

\* os.Lstat(path): on an error the worker continues with the next path
WorkerLstat(w) ==
    /\ Running /\ wpc[w] = "lstat"
    /\ \/ \* err != nil: continue
          /\ Cardinality(statFailed) < MaxStatFails
          /\ statFailed' = statFailed \cup {wpath[w]}
          /\ wpc' = [wpc EXCEPT ![w] = "select"]
       \/ /\ wpc' = [wpc EXCEPT ![w] =
                       IF Tree[wpath[w]].isDir THEN "dlock" ELSE "flock"]
          /\ UNCHANGED statFailed
    /\ UNCHANGED <<aggVars, fsVars, mainVars, groupVars, chanVars, prodVars,
                   wpath, mu, processedFiles, repVars, ui>>

\* a processDirectory that does not wait for stats.mu
WorkerDirHeadNoLock(w) ==
    /\ Running /\ wpc[w] = "dlock"
    /\ mu' = w
    /\ stats' = pdHead(stats, wpath[w], root)
    /\ wpc' = [wpc EXCEPT ![w] = "dreaddir"]
    /\ UNCHANGED <<maxFiles, clock, crashed, merged, fsVars, mainVars,
                   groupVars, chanVars, prodVars, wpath, processedFiles,
                   statFailed, repVars, ui>>

\* processDirectory: stats.mu.Lock() and lines 499-509
WorkerDirHead(w) ==
    /\ Running /\ wpc[w] = "dlock"
    /\ mu = 0
    /\ mu' = w
    /\ stats' = pdHead(stats, wpath[w], root)
    /\ wpc' = [wpc EXCEPT ![w] = "dreaddir"]
    /\ UNCHANGED <<maxFiles, clock, crashed, merged, fsVars, mainVars,
                   groupVars, chanVars, prodVars, wpath, processedFiles,
                   statFailed, repVars, ui>>

\* a worker that counts a directory as a processed file
WorkerDirReadDirCounted(w) ==
    /\ Running /\ wpc[w] = "dreaddir"
    /\ LET ok == wpath[w] \notin unreadable
       IN /\ stats' = pdReadDir(stats, wpath[w], ok)
          /\ merged' = merged \cup {Merged(wpath[w], ok, clock)}
    /\ mu' = 0
    /\ wpc' = [wpc EXCEPT ![w] = "inc"]
    /\ UNCHANGED <<maxFiles, clock, crashed, fsVars, mainVars, groupVars,
                   chanVars, prodVars, wpath, processedFiles, statFailed, repVars,
                   ui>>

\* processDirectory: os.ReadDir and lines 511-526, then the deferred Unlock
WorkerDirReadDir(w) ==
    /\ Running /\ wpc[w] = "dreaddir"
    /\ LET ok == wpath[w] \notin unreadable
       IN /\ stats' = pdReadDir(stats, wpath[w], ok)
          /\ merged' = merged \cup {Merged(wpath[w], ok, clock)}
    /\ mu' = 0
    /\ wpc' = [wpc EXCEPT ![w] = "select"]
    /\ UNCHANGED <<maxFiles, clock, crashed, fsVars, mainVars, groupVars,
                   chanVars, prodVars, wpath, processedFiles, statFailed, repVars,
                   ui>>

\* processFile: stats.mu.Lock() and lines 533-534
WorkerFileTotals(w) ==
    /\ Running /\ wpc[w] = "flock"
    /\ mu = 0
    /\ mu' = w
    /\ stats' = pfTotals(stats, wpath[w])
    /\ wpc' = [wpc EXCEPT ![w] = "ftypes"]
    /\ UNCHANGED <<maxFiles, clock, crashed, merged, fsVars, mainVars,
                   groupVars, chanVars, prodVars, wpath, processedFiles,
                   statFailed, repVars, ui>>

\* processFile, lines 536-571; the index of an empty heap panics
WorkerFileTypes(w) ==
    /\ Running /\ wpc[w] = "ftypes"
    /\ IF processFilePanics(pfTypes(stats, wpath[w]), maxFiles)
       THEN /\ crashed' = TRUE
            /\ stats' = pfTypes(stats, wpath[w])
            /\ mu' = 0
            /\ wpc' = [wpc EXCEPT ![w] = "panicked"]
       ELSE /\ stats' = pfByType(pfLargest(pfTypes(stats, wpath[w]), wpath[w],
                                           maxFiles), wpath[w], maxFiles)
            /\ wpc' = [wpc EXCEPT ![w] = "frest"]
            /\ UNCHANGED <<crashed, mu>>
    /\ UNCHANGED <<maxFiles, clock, merged, fsVars, mainVars, groupVars,
                   chanVars, prodVars, wpath, processedFiles, statFailed, repVars,
                   ui>>

\* processFile, lines 573-583, then the deferred Unlock
WorkerFileRest(w) ==
    /\ Running /\ wpc[w] = "frest"
    /\ stats' = pfRest(stats, wpath[w], clock)
    /\ merged' = merged \cup {Merged(wpath[w], TRUE, clock)}
    /\ mu' = 0
    /\ wpc' = [wpc EXCEPT ![w] = "inc"]
    /\ UNCHANGED <<maxFiles, clock, crashed, fsVars, mainVars, groupVars,
                   chanVars, prodVars, wpath, processedFiles, statFailed, repVars,
                   ui>>

\* atomic.AddInt64(processedFiles, 1)
WorkerInc(w) ==
    /\ Running /\ wpc[w] = "inc"
    /\ processedFiles' = processedFiles + 1
    /\ wpc' = [wpc EXCEPT ![w] = "select"]
    /\ UNCHANGED <<aggVars, fsVars, mainVars, groupVars, chanVars, prodVars,
                   wpath, mu, statFailed, repVars, ui>>

\* a non-blocking send on progressChan
trySend(ch, msg) == IF Len(ch) < ProgressChanCap THEN Append(ch, msg) ELSE ch
sent(ch) == Len(ch) < ProgressChanCap

\* the ticker, case <-ticker.C: the two atomic loads
ReporterLoad ==
    /\ Running /\ rpc = "select"
    /\ rproc' = processedFiles
    /\ rpc' = "emit"
    /\ UNCHANGED <<aggVars, fsVars, mainVars, groupVars, chanVars, prodVars,
                   workVars, progressChan, ui>>

\* the ticker, lines 426-431
ReporterEmit ==
    /\ Running /\ rpc = "emit"
    /\ IF totalFiles > 0
       THEN progressChan' = trySend(progressChan, Snapshot(rproc, totalFiles))
       ELSE UNCHANGED progressChan
    /\ rpc' = "select"
    /\ rproc' = 0
    /\ UNCHANGED <<aggVars, fsVars, mainVars, groupVars, chanVars, prodVars,
                   workVars, ui>>

\* the ticker, case <-ctx.Done()
ReporterStop ==
    /\ Running /\ rpc = "select"
    /\ ctxDone
    /\ rpc' = "stopped"
    /\ UNCHANGED <<aggVars, fsVars, mainVars, groupVars, chanVars, prodVars,
                   workVars, rproc, progressChan, ui>>

\* a Wait that returns when the producer has returned, workers or not
WaitForProducer ==
    /\ Running /\ mainpc = "wait"
    /\ prodpc = "returned"
    /\ ctxDone' = TRUE
    /\ retErr' = gErr
    /\ mainpc' = "final"
    /\ UNCHANGED <<aggVars, fsVars, totalFiles, finalPlaced, gErr, chanVars,
                   prodVars, workVars, repVars, ui>>

\* g.Wait(): every goroutine of the group has returned; Wait cancels the
\* context and returns the first error
Wait ==
    /\ Running /\ mainpc = "wait"
    /\ prodpc = "returned" /\ \A w \in Workers : wpc[w] = "returned"
    /\ ctxDone' = TRUE
    /\ retErr' = gErr
    /\ mainpc' = "final"
    /\ UNCHANGED <<aggVars, fsVars, totalFiles, finalPlaced, gErr, chanVars,
                   prodVars,
                   workVars, repVars, ui>>

\* analyzeDirectory, lines 461-467: the final progress, return
FinalProgress ==
    /\ Running /\ mainpc = "final"
    /\ progressChan' = trySend(progressChan, Snapshot(totalFiles, totalFiles))
    /\ finalPlaced' = sent(progressChan)
    /\ mainpc' = "returned"
    /\ UNCHANGED <<aggVars, fsVars, totalFiles, retErr, groupVars, chanVars,
                   prodVars, workVars, rpc, rproc, ui>>

\* listenForProgress and model.Update, case progressMsg
UIProgress ==
    /\ Running
    /\ progressChan # <<>>
    /\ ui' = [ui EXCEPT !.processedFiles = Head(progressChan).processed,
                        !.totalFiles = Head(progressChan).total]
    /\ progressChan' = Tail(progressChan)
    /\ UNCHANGED <<aggVars, fsVars, mainVars, groupVars, chanVars, prodVars,
                   workVars, rpc, rproc>>

\* analyzeCmd and model.Update, case analysisMsg: tea.Quit
UIAnalysis ==
    /\ Running /\ mainpc = "returned"
    /\ ui' = [ui EXCEPT !.analyzing = FALSE, !.err = retErr, !.done = TRUE,
                        !.quit = TRUE]
    /\ UNCHANGED <<aggVars, fsVars, mainVars, groupVars, chanVars, prodVars,
                   workVars, repVars>>

\* model.Update, case tea.KeyMsg "q" or "ctrl+c": tea.Quit and nothing else.
\* p.Run() returns and main ends the process, and with it every goroutine;
\* the steps goroutines still take until then are steps they take without
\* the key as well.
UIKey ==
    /\ Running
    /\ ui' = [ui EXCEPT !.quit = TRUE]
    /\ UNCHANGED <<aggVars, fsVars, mainVars, groupVars, chanVars, prodVars,
                   workVars, repVars>>

Next ==
    \/ CountPass
    \/ Spawn
    \/ ProducerSkip
    \/ ProducerSelect
    \/ ProducerFinish
    \/ \E w \in Workers : WorkerSelect(w)
    \/ \E w \in Workers : WorkerLstat(w)
    \/ \E w \in Workers : WorkerDirHead(w)
    \/ \E w \in Workers : WorkerDirReadDir(w)
    \/ \E w \in Workers : WorkerFileTotals(w)
    \/ \E w \in Workers : WorkerFileTypes(w)
    \/ \E w \in Workers : WorkerFileRest(w)
    \/ \E w \in Workers : WorkerInc(w)
    \/ ReporterLoad
    \/ ReporterEmit
    \/ ReporterStop
    \/ Wait
    \/ FinalProgress
    \/ UIProgress
    \/ UIAnalysis
    \/ UIKey

Spec == Init /\ [][Next]_vars

\* the goroutines of the pipeline are scheduled: a step of analyzeDirectory,
\* of the producer or of a worker that stays possible is taken
Fairness ==
    /\ WF_vars(CountPass) /\ WF_vars(Spawn) /\ WF_vars(Wait)
    /\ WF_vars(FinalProgress)
    /\ WF_vars(ProducerSkip) /\ WF_vars(ProducerSelect)
    /\ WF_vars(ProducerFinish)
    /\ \A w \in Workers :
          /\ WF_vars(WorkerSelect(w)) /\ WF_vars(WorkerLstat(w))
          /\ WF_vars(WorkerDirHead(w)) /\ WF_vars(WorkerDirReadDir(w))
          /\ WF_vars(WorkerFileTotals(w)) /\ WF_vars(WorkerFileTypes(w))
          /\ WF_vars(WorkerFileRest(w)) /\ WF_vars(WorkerInc(w))

SpecFair == Spec /\ Fairness

(***************************************************************************)
(* Sequences of merges: processFile and processDirectory applied, one      *)
(* call after the other, to nodes of the whole tree in any order.          *)
(***************************************************************************)
InitMerge ==
    /\ InitIdle
    /\ countArg \in {<<n>> : n \in 0..MaxCount}
    /\ maxFiles = flagCount(countArg)
    /\ root = 1
    /\ rootOk = TRUE
    /\ unreadable \in SUBSET {d \in DirNodes : entries(d) = {7}}
    /\ mainpc = "merge"

mergedNodes == {c.node : c \in merged}

\* processFile(path, info, stats, maxFiles)
MergeFile(p) ==
    /\ mainpc = "merge" /\ ~crashed
    /\ Cardinality(merged) < MaxMerges
    /\ p \in FileNodes \ mergedNodes
    /\ IF processFilePanics(pfTypes(pfTotals(stats, p), p), maxFiles)
       THEN /\ crashed' = TRUE
            /\ stats' = pfTypes(pfTotals(stats, p), p)
            /\ UNCHANGED merged
       ELSE /\ stats' = processFile(stats, p, maxFiles, clock)
            /\ merged' = merged \cup {Merged(p, TRUE, clock)}
            /\ UNCHANGED crashed
    /\ UNCHANGED <<maxFiles, clock, fsVars, mainVars, groupVars, chanVars,
                   prodVars, workVars, repVars, ui>>

\* processDirectory(path, stats, root)
MergeDir(p) ==
    /\ mainpc = "merge" /\ ~crashed
    /\ Cardinality(merged) < MaxMerges
    /\ p \in DirNodes \ mergedNodes
    /\ stats' = processDirectory(stats, p, root, p \notin unreadable)
    /\ merged' = merged \cup {Merged(p, p \notin unreadable, clock)}
    /\ UNCHANGED <<maxFiles, clock, crashed, fsVars, mainVars, groupVars,
                   chanVars, prodVars, workVars, repVars, ui>>

\* an hour passes
ClockTick ==
    /\ mainpc = "merge" /\ ~crashed
    /\ clock < Now0 + MaxTicks
    /\ clock' = clock + 1
    /\ UNCHANGED <<stats, maxFiles, crashed, merged, fsVars, mainVars,
                   groupVars, chanVars, prodVars, workVars, repVars, ui>>

NextMerge ==
    \/ \E p \in Nodes : MergeFile(p)
    \/ \E p \in Nodes : MergeDir(p)

\* merges at one instant
SpecMerge == InitMerge /\ [][NextMerge]_vars

NextClock ==
    \/ \E p \in Nodes : MergeFile(p)
    \/ \E p \in Nodes : MergeDir(p)
    \/ ClockTick

\* merges while the clock advances
SpecClock == InitMerge /\ [][NextClock]_vars

(***************************************************************************)
(* Properties.                                                             *)
(***************************************************************************)
mergedFiles == {c.node : c \in {x \in merged : ~Tree[x.node].isDir}}
mergedOfType(e) == {p \in mergedFiles : extOf[p] = e}
Held(h) == {h[i].Path : i \in 1..Len(h)}

\* the items of h are distinct files of offered, each with its own size
HoldsFilesOf(h, offered) ==
    /\ Held(h) \subseteq offered
    /\ Cardinality(Held(h)) = Len(h)
    /\ \A i \in 1..Len(h) : h[i].Size = Tree[h[i].Path].size

\* h holds k of the files offered and no file left out is larger than a
\* file held: the sizes held are the k largest sizes offered
IsTopK(h, k, offered) ==
    /\ Len(h) = k
    /\ HoldsFilesOf(h, offered)
    /\ \A f \in offered \ Held(h) :
          \A i \in 1..Len(h) : Tree[f].size <= h[i].Size

\* C2: with capacity K >= 1, once N >= K files are merged, in any order,
\* the global tracker holds exactly K items and their sizes are the K
\* largest sizes among the merged files.
C2_GlobalTopK ==
    (maxFiles >= 1 /\ Cardinality(mergedFiles) >= maxFiles)
        => IsTopK(stats.LargestFiles, maxFiles, mergedFiles)

\* a full global tracker has turned a file away or evicted one
C2_Witness ==
    /\ maxFiles = 2
    /\ mergedFiles = {2, 3, 5, 8}
    /\ Held(stats.LargestFiles) = {2, 5}

\* C3: no tracker is longer than its capacity (maxFiles for the global
\* tracker, min(maxFiles, 10) for a per-type tracker), and a tracker that
\* was offered fewer items than its capacity holds exactly the items offered.
C3_TrackerLength ==
    /\ Len(stats.LargestFiles) <= maxFiles
    /\ Cardinality(mergedFiles) < maxFiles
          => /\ Held(stats.LargestFiles) = mergedFiles
             /\ HoldsFilesOf(stats.LargestFiles, mergedFiles)
    /\ \A e \in DOMAIN stats.LargestByType :
          /\ Len(stats.LargestByType[e]) <= topFilesPerType(maxFiles)
          /\ Cardinality(mergedOfType(e)) < topFilesPerType(maxFiles)
                => /\ Held(stats.LargestByType[e]) = mergedOfType(e)
                   /\ HoldsFilesOf(stats.LargestByType[e], mergedOfType(e))

\* trackers below their capacity, one of them with two items
C3_Witness ==
    /\ maxFiles = 3
    /\ Cardinality(mergedFiles) = 2
    /\ \E e \in DOMAIN stats.LargestByType : Len(stats.LargestByType[e]) = 2

\* the scalar counters and frequency maps of C4
Counters(s) ==
    [TotalFiles |-> s.TotalFiles, TotalDirs |-> s.TotalDirs,
     TotalSize |-> s.TotalSize, TypeFreq |-> s.TypeFreq,
     TypeSizes |-> s.TypeSizes, SizeDistribution |-> s.SizeDistribution,
     WordFreq |-> s.WordFreq, Permissions |-> s.Permissions,
     YearDistribution |-> s.YearDistribution, AccessTimes |-> s.AccessTimes,
     HiddenFiles |-> s.HiddenFiles, SystemFiles |-> s.SystemFiles,
     Symlinks |-> s.Symlinks, WriteProtected |-> s.WriteProtected,
     EmptyFiles |-> s.EmptyFiles, EmptyDirs |-> s.EmptyDirs]

RECURSIVE Ascending(_)
\* the elements of a set of integers, ascending
Ascending(S) ==
    IF S = {} THEN <<>>
    ELSE LET m == CHOOSE x \in S : \A y \in S : y <= x
         IN Append(Ascending(S \ {m}), m)

RECURSIVE AscendingTimes(_)
\* the instants of the merges cs, ascending, one per merge
AscendingTimes(cs) ==
    IF cs = {} THEN <<>>
    ELSE LET c == CHOOSE x \in cs : \A y \in cs : y.at <= x.at
         IN Append(AscendingTimes(cs \ {c}), c.at)

RECURSIVE InOrder(_, _, _, _, _)
\* the first k nodes of ns merged into a fresh aggregate one after the
\* other, the i-th at the instant ts[i]; ok tells which ReadDir succeed
InOrder(k, ns, ts, ok, mf) ==
    IF k = 0 THEN InitStats
    ELSE LET before == InOrder(k - 1, ns, ts, ok, mf)
         IN IF Tree[ns[k]].isDir
            THEN processDirectory(before, ns[k], root, ns[k] \in ok)
            ELSE processFile(before, ns[k], mf, ts[k])

\* the aggregate of the run that merges the same observations at the same
\* instants as the merges so far, but in ascending order of the nodes
Reordered ==
    InOrder(Cardinality(merged), Ascending(mergedNodes), AscendingTimes(merged),
            {c.node : c \in {x \in merged : x.ok}}, maxFiles)

\* C4: the counters and frequency maps after merging a set of observations
\* do not depend on the permutation in which they were merged: they are
\* those of the run that merges the same observations at the same instants
\* in ascending order of the nodes.
C4_OrderIndependent ==
    ~crashed => Counters(stats) = Counters(Reordered)

\* the same, AccessTimes left out
C4_OrderIndependentButAccess ==
    ~crashed =>
        [Counters(stats) EXCEPT !.AccessTimes = EmptyMap]
            = [Counters(Reordered) EXCEPT !.AccessTimes = EmptyMap]

(***************************************************************************)
(* The per-type tracker alone: processFile's lines 559-571 applied to one  *)
(* file after the other, all of one extension, the k-th file with path k   *)
(* and a size of OfferSizes. merged is the set of the FileSize offered.    *)
(***************************************************************************)
OfferSizes == {1024, 2048}
OfferType == extOf[5]

InitOffer ==
    /\ InitIdle
    /\ countArg \in {<<n>> : n \in 1..MaxTypeCount}
    /\ maxFiles = flagCount(countArg)
    /\ root = 1
    /\ rootOk = TRUE
    /\ unreadable = {}
    /\ mainpc = "offer"

\* processFile, lines 559-571, for a file of type OfferType
OfferOfType(size) ==
    /\ mainpc = "offer"
    /\ Cardinality(merged) < MaxOffers
    /\ LET f == FileSize(Cardinality(merged) + 1, size, OfferType)
           typeHeap == IF OfferType \in DOMAIN stats.LargestByType
                       THEN stats.LargestByType[OfferType]
                       ELSE <<>>
       IN /\ stats' = [stats EXCEPT !.LargestByType =
                          Put(@, OfferType,
                              offer(typeHeap, topFilesPerType(maxFiles), f))]
          /\ merged' = merged \cup {f}
    /\ UNCHANGED <<maxFiles, clock, crashed, fsVars, mainVars, groupVars,
                   chanVars, prodVars, workVars, repVars, ui>>

NextOffer == \E size \in OfferSizes : OfferOfType(size)

SpecOffer == InitOffer /\ [][NextOffer]_vars

(***************************************************************************)
(* Properties of a scan.                                                   *)
(***************************************************************************)
\* worker w is inside processFile or processDirectory (a merge that
\* panicked never left it)
InMerge(w) == wpc[w] \in {"dreaddir", "ftypes", "frest", "panicked"}

CountersAgree(s) ==
    /\ s.TotalFiles = SumMap(s.TypeFreq)
    /\ s.TotalFiles = SumMap(s.SizeDistribution)

\* C1: whenever no worker is inside a merge, and so in the aggregate that
\* analyzeDirectory returns, TotalFiles is the sum of the TypeFreq counts
\* and the sum of the SizeDistribution counts.
C1_CountersAgree == (\A w \in Workers : ~InMerge(w)) => CountersAgree(stats)

\* a scan of two files has returned
C1_Witness == mainpc = "returned" /\ stats.TotalFiles = 2 /\ mu = 0

\* the counters disagree inside a merge
C1_InsideMerge == \E w \in Workers : InMerge(w) /\ ~CountersAgree(stats)

\* C5: when the producer and all workers have returned, analyzeDirectory
\* places the final snapshot (total, total) on the observer channel, also
\* when the channel is full.
C5_FinalSnapshotDelivered ==
    [][(mainpc = "final" /\ mainpc' = "returned")
        => progressChan' = Append(progressChan, Snapshot(totalFiles, totalFiles))]_vars

\* the processed value of the snapshot placed last: the last one waiting,
\* else the one the observer received last
LastPlaced(ch, u) == IF ch # <<>> THEN ch[Len(ch)].processed ELSE u.processedFiles

\* C6: processed never decreases, a snapshot placed on the observer channel
\* never carries less than the one placed before it, and when
\* analyzeDirectory returns the snapshot placed last carries total.
C6_ProgressMonotone ==
    [][/\ processedFiles' >= processedFiles
       /\ Len(progressChan') > Len(progressChan)
             => progressChan'[Len(progressChan')].processed
                   >= LastPlaced(progressChan, ui)
       /\ (mainpc = "final" /\ mainpc' = "returned")
             => LastPlaced(progressChan', ui') = totalFiles]_vars

\* the part of C6 about the counter alone
C6_ProcessedNeverDecreases == [][processedFiles' >= processedFiles]_vars

\* the context is cancelled by nothing but the return of g.Wait(): while
\* the producer or a worker runs, ctx.Done() is never ready (the premise of
\* C7 holds in no state of a scan)
CancelledOnlyAfterWait == ctxDone => mainpc \in {"final", "returned"}

\* C8: a scan whose root cannot be opened returns a non-nil error.
C8_RootErrorReturned == (mainpc = "returned" /\ ~rootOk) => retErr # "nil"

\* the step is the walk function called with an error, or a failed Lstat
WalkErrorStep ==
    /\ prodpc = "walk" /\ prodIdx <= Len(Calls)
    /\ ~Calls[prodIdx].ok
    /\ prodIdx' = prodIdx + 1
StatFailureStep == statFailed' # statFailed

\* C9: a walk error or a failed Lstat changes neither the aggregate nor the
\* processed counter, cancels nothing and sets no error, and the walker or
\* worker goes on with its loop; a path whose Lstat failed is never merged.
C9_NodeFailureSkipped ==
    [][/\ (WalkErrorStep \/ StatFailureStep)
            => /\ stats' = stats /\ merged' = merged
               /\ processedFiles' = processedFiles
               /\ ctxDone' = ctxDone /\ gErr' = gErr /\ retErr' = retErr
               /\ prodpc' = prodpc
               /\ \A w \in Workers : wpc'[w] # wpc[w] => wpc'[w] = "select"
       /\ statFailed' \cap {c.node : c \in merged'} = {}
       /\ mainpc' = "returned" => retErr' = "nil"]_vars

\* a scan with a walk error and a failed Lstat went on to merge a file
C9_Witness ==
    /\ mainpc = "returned" /\ retErr = "nil"
    /\ unreadable = {6} /\ statFailed = {4}
    /\ mergedFiles = {5} /\ processedFiles = 1

\* C10: under fair scheduling analyzeDirectory returns, unless the user ends
\* the program first.
C10_Terminates == <>(mainpc = "returned" \/ ui.quit)

\* the same, unless a merge panics
C10_TerminatesUnlessPanic == <>(mainpc = "returned" \/ ui.quit \/ crashed)

\* the sends on progressChan never wait: the ticker's emit and the final
\* send can be taken whatever the channel holds
EmitNeverWaits ==
    /\ (Running /\ rpc = "emit") => ENABLED ReporterEmit
    /\ (Running /\ mainpc = "final") => ENABLED FinalProgress

\* a step of analyzeDirectory, the producer or a worker
PipelineStep ==
    \/ CountPass \/ Spawn \/ Wait \/ FinalProgress
    \/ ProducerSkip \/ ProducerSelect \/ ProducerFinish
    \/ \E w \in Workers :
          \/ WorkerSelect(w) \/ WorkerLstat(w)
          \/ WorkerDirHead(w) \/ WorkerDirReadDir(w)
          \/ WorkerFileTotals(w) \/ WorkerFileTypes(w)
          \/ WorkerFileRest(w) \/ WorkerInc(w)

\* while the program runs and analyzeDirectory has not returned, the
\* pipeline can take a step whatever the observer and the ticker do: no
\* state has the producer and the workers all waiting
NoStuckState == (Running /\ mainpc # "returned") => ENABLED PipelineStep

\* C11: in a fair run in which the observer never receives from
\* progressChan (and does not end the program), analyzeDirectory returns.
C11_CompletesUnobserved ==
    <>(mainpc = "returned" \/ ui.quit \/ ui.totalFiles > 0)

\* the same, unless a merge panics
C11_CompletesUnobservedUnlessPanic ==
    <>(mainpc = "returned" \/ ui.quit \/ ui.totalFiles > 0 \/ crashed)

Min(a, b) == IF a < b THEN a ELSE b

\* h holds k of the FileSize records offered and no record left out is
\* larger than one held
HoldsLargest(h, k, offered) ==
    /\ Len(h) = k
    /\ {h[i] : i \in 1..Len(h)} \subseteq offered
    /\ Cardinality({h[i] : i \in 1..Len(h)}) = Len(h)
    /\ \A f \in offered \ {h[i] : i \in 1..Len(h)} :
          \A i \in 1..Len(h) : f.Size <= h[i].Size

\* C12: with --count N >= 1 the per-type tracker of an extension holds
\* min(N, number of files of the extension) items, the largest of them.
C12_PerTypeCapacity ==
    OfferType \in DOMAIN stats.LargestByType
        => HoldsLargest(stats.LargestByType[OfferType],
                        Min(maxFiles, Cardinality(merged)), merged)

\* the same with min(N, 10) for N, the capacity the code gives the tracker
PerTypeCapacityTen ==
    OfferType \in DOMAIN stats.LargestByType
        => HoldsLargest(stats.LargestByType[OfferType],
                        Min(Min(maxFiles, PerTypeLimit), Cardinality(merged)),
                        merged)

\* C13: with --count 0 no merge of a file reaches a crash: the run is
\* rejected before any merge or the trackers stay empty.
C13_ZeroCapacityNoCrash ==
    maxFiles = 0
        => /\ ~crashed
           /\ stats.LargestFiles = <<>>
           /\ \A e \in DOMAIN stats.LargestByType : stats.LargestByType[e] = <<>>

\* the user asks to stop: the step in which the program takes q or ctrl+c
\* while the producer and the workers run
StopRequested == mainpc = "wait" /\ ~ui.quit /\ ui'.quit

\* C14: a request to stop while the scan is analyzing fires the shared
\* cancellation signal.
C14_StopRequestCancels == [][StopRequested => ctxDone']_vars

\* C15: when g.Wait() has returned every worker has returned and holds no
\* lock, and from then on, through the return of analyzeDirectory and the
\* analysisMsg, no merge changes the aggregate.
C15_NoMergeAfterHandOff ==
    [][/\ mainpc' \in {"final", "returned"}
            => /\ \A w \in Workers : wpc'[w] = "returned"
               /\ mu' = 0
       /\ mainpc \in {"final", "returned"}
            => /\ stats' = stats
               /\ merged' = merged]_vars

\* the observer holds the aggregate of a scan of two files
C15_Witness ==
    /\ ui.done /\ mainpc = "returned"
    /\ stats.TotalFiles = 2 /\ mergedFiles = {5, 7}

\* the counters that classify a file by the time since it was modified or
\* accessed
TimeClasses(s) ==
    [RecentMods |-> s.RecentMods, StaleFiles |-> s.StaleFiles,
     AccessTimes |-> s.AccessTimes]

\* the aggregate of the run that merges the same observations, every one
\* of them at the instant t
AtInstant(t) ==
    InOrder(Cardinality(merged), Ascending(mergedNodes),
            [i \in 1..Cardinality(merged) |-> t],
            {c.node : c \in {x \in merged : x.ok}}, maxFiles)

\* C16: RecentMods, StaleFiles and AccessTimes are those of one scan-time
\* instant, whenever during the scan the workers merged the files.
C16_OneScanInstant ==
    ~crashed => \E t \in Now0..(Now0 + MaxTicks) :
                    TimeClasses(stats) = TimeClasses(AtInstant(t))

\* C17: once the final snapshot has been placed on progressChan nothing
\* further is placed on it.
C17_FinalSnapshotIsLast ==
    [][finalPlaced => Len(progressChan') <= Len(progressChan)]_vars

\* the bucket C18 gives a size
HalfOpenBucket(size) ==
    IF size < 1024 THEN "tiny"
    ELSE IF 1024 <= size /\ size < 1048576 THEN "small"
    ELSE IF 1048576 <= size /\ size < 104857600 THEN "medium"
    ELSE "large"

\* sizes at, just below and just above the thresholds
ThresholdSizes ==
    {0, 1, 1023, 1024, 1025, 1048575, 1048576, 1048577,
     104857599, 104857600, 104857601}

\* C18: every merged file has incremented exactly the bucket of its size,
\* with half-open thresholds at 1 KiB, 1 MiB and 100 MiB: the count of a
\* bucket is the number of merged files whose size falls in it, and a size
\* equal to a threshold falls in the higher bucket.
C18_SizeBuckets ==
    /\ \A size \in ThresholdSizes : sizeBucket(size) = HalfOpenBucket(size)
    /\ DOMAIN stats.SizeDistribution \subseteq {"tiny", "small", "medium", "large"}
    /\ \A b \in {"tiny", "small", "medium", "large"} :
          Get(stats.SizeDistribution, b)
              = Cardinality({p \in mergedFiles : HalfOpenBucket(Tree[p].size) = b})

\* files of 1 KiB and of 100 MiB exactly are merged, with a file of each of
\* the other two buckets
C18_Witness ==
    /\ mergedFiles = {3, 5, 8, 9}
    /\ Get(stats.SizeDistribution, "small") = 1
    /\ Get(stats.SizeDistribution, "large") = 1

\* the denylist of isSystemFile
systemFiles ==
    {
     <<"t", "h", "u", "m", "b", "s", ".", "d", "b">>,
     <<"d", "e", "s", "k", "t", "o", "p", ".", "i", "n", "i">>,
     <<".", "d", "s", "_", "s", "t", "o", "r", "e">>,
     <<"h", "i", "b", "e", "r", "f", "i", "l", ".", "s", "y", "s">>,
     <<"p", "a", "g", "e", "f", "i", "l", "e", ".", "s", "y", "s">>,
     <<"s", "w", "a", "p", "f", "i", "l", "e", ".", "s", "y", "s">>,
     <<"s", "y", "s", "t", "e", "m", " ", "v", "o", "l", "u", "m", "e",
       " ", "i", "n", "f", "o", "r", "m", "a", "t", "i", "o", "n">>,
     <<"r", "e", "c", "y", "c", "l", "e", "r">>,
     <<"$", "r", "e", "c", "y", "c", "l", "e", ".", "b", "i", "n">>
    }

\* isSystemFile(filename): strings.ToLower(filename) is on the denylist
isSystemFile(name) == ToLower(name) \in systemFiles

\* C19: SystemFiles counts the merged files whose name is, case-insensitively,
\* on the denylist: each of them adds one, any other file adds nothing.
C19_SystemFilesCounted ==
    stats.SystemFiles
        = Cardinality({p \in mergedFiles : isSystemFile(Tree[p].name)})

\* C20: when --count is absent the capacity of the run is 10.
C20_DefaultCountIsTen == countArg = <<>> => maxFiles = 10

\* the positions of a worker between Lock and Unlock of stats.mu
CriticalSection == {"dreaddir", "ftypes", "frest"}

\* C21: at most one worker is between Lock and Unlock, that worker holds
\* stats.mu, and a step that changes the aggregate is the step of a worker
\* that holds stats.mu before or after it; no step of analyzeDirectory, the
\* producer or the ticker changes the aggregate.
C21_SingleLockedWriter ==
    [][/\ Cardinality({w \in Workers : wpc'[w] \in CriticalSection}) <= 1
       /\ \A w \in Workers : wpc'[w] \in CriticalSection => mu' = w
       /\ stats' # stats
            => /\ \E w \in Workers : wpc'[w] # wpc[w] /\ (mu = w \/ mu' = w)
               /\ mainpc' = mainpc /\ prodpc' = prodpc /\ prodIdx' = prodIdx
               /\ rpc' = rpc /\ rproc' = rproc]_vars

\* a worker merges a file while the other waits for stats.mu
C21_Witness ==
    /\ wpc[1] = "frest" /\ mu = 1
    /\ wpc[2] = "dlock"

\* the positions of a worker at a call of the file system: os.Lstat in
\* processWorker, os.ReadDir in processDirectory
IOStep == {"lstat", "dreaddir"}

\* C22: a worker about to call the file system does not hold stats.mu.
C22_NoIOUnderLock ==
    \A w \in Workers : wpc[w] \in IOStep => mu # w

\* the paths among the first n calls of the walk function that it sends
SentUpTo(calls, n) == {calls[i].node : i \in {j \in 1..n : calls[j].ok}}

\* worker w has received a path and has not yet skipped or merged it
Holding(w) ==
    wpc[w] \in {"lstat", "dlock", "dreaddir", "flock", "ftypes", "frest",
                "panicked"}

\* the number of places path p is at: waiting in pathChan, held by a
\* worker, skipped for a failed Lstat, merged (done is the set of the
\* merged paths)
PlacesOf(p, done) ==
    Cardinality({i \in 1..Len(pathChan) : pathChan[i] = p})
      + Cardinality({w \in Workers : Holding(w) /\ wpath[w] = p})
      + (IF p \in statFailed THEN 1 ELSE 0)
      + (IF p \in done THEN 1 ELSE 0)

\* C23: every path sent is at one place only (in the channel, with one
\* worker, skipped or merged) and no other path is anywhere; the aggregate
\* counts every merged path once; and when analyzeDirectory returns the
\* channel is closed and empty, the merged paths are the sent paths whose
\* Lstat succeeded, and TotalFiles + TotalDirs is their number.
C23_EachPathMergedOnce ==
    LET calls == Calls
        queued == SentUpTo(calls, prodIdx - 1)
        walked == SentUpTo(calls, Len(calls))
        done == mergedNodes
    IN /\ \A p \in Nodes : PlacesOf(p, done) = IF p \in queued THEN 1 ELSE 0
       /\ (\A w \in Workers : ~InMerge(w))
             => stats.TotalFiles + stats.TotalDirs = Cardinality(done)
       /\ mainpc = "returned"
             => /\ chanClosed /\ pathChan = <<>>
                /\ queued = walked
                /\ done = walked \ statFailed
                /\ stats.TotalFiles + stats.TotalDirs
                      = Cardinality(walked \ statFailed)

\* a scan of four paths has returned, one of them skipped
C23_Witness ==
    /\ mainpc = "returned"
    /\ statFailed = {6} /\ mergedNodes = {4, 5, 7}
    /\ stats.TotalFiles + stats.TotalDirs = 3

\* the modification times of the files in set S
ModTimes(S) == {Tree[p].mtime : p \in S}

\* record r names a file of S whose modification time is t
Records(r, S, t) == r.Path \in S /\ Tree[r.Path].mtime = t /\ r.ModTime = t

\* C24: after a merge of a file, OldestFile has the least and NewestFile the
\* greatest modification time of the merged files and each names a merged
\* file with that time; a merge that leaves an extremum time as it was
\* leaves the recorded path as it was (the first file merged with that time).
C24_ExtremaFirstWins ==
    [][mergedFiles' # {}
         => LET oldest == CHOOSE t \in ModTimes(mergedFiles') :
                             \A u \in ModTimes(mergedFiles') : t <= u
                newest == CHOOSE t \in ModTimes(mergedFiles') :
                             \A u \in ModTimes(mergedFiles') : t >= u
            IN /\ Records(stats'.OldestFile, mergedFiles', oldest)
               /\ Records(stats'.NewestFile, mergedFiles', newest)
               /\ (mergedFiles # {}
                     /\ stats.OldestFile.ModTime = oldest)
                    => stats'.OldestFile.Path = stats.OldestFile.Path
               /\ (mergedFiles # {}
                     /\ stats.NewestFile.ModTime = newest)
                    => stats'.NewestFile.Path = stats.NewestFile.Path]_vars

\* two files with the oldest time and two with the newest were merged, and
\* the records name the ones merged first
C24_Witness ==
    /\ mergedFiles = {2, 7, 8, 9}
    /\ stats.OldestFile.Path = 8
    /\ stats.NewestFile.Path = 9

\* C25: the context is cancelled only when the producer and every worker
\* have returned, so the ctx.Done case of their selects is never ready; the
\* group holds no error and analyzeDirectory returns nil.
C25_NoEarlyCancel ==
    /\ ctxDone => /\ prodpc = "returned"
                  /\ \A w \in Workers : wpc[w] = "returned"
    /\ gErr = "nil"
    /\ retErr = "nil"

\* a scan that met an unreadable directory and a failed Lstat has returned
C25_Witness ==
    /\ mainpc = "returned" /\ ctxDone
    /\ unreadable # {} /\ statFailed # {}
    /\ retErr = "nil"

\* C26: the processed counter never exceeds the aggregate's TotalFiles: it
\* is the number of merged files less those whose worker has yet to count
\* them; when every worker has returned the two are equal.
C26_ProcessedAtMostTotalFiles ==
    /\ processedFiles <= stats.TotalFiles
    /\ processedFiles + Cardinality({w \in Workers : wpc[w] = "inc"})
          = Cardinality(mergedFiles)
    /\ (\A w \in Workers : wpc[w] = "returned")
          => processedFiles = stats.TotalFiles

\* the workers have returned from a scan that merged a directory and one of
\* two files, the Lstat of the other having failed
C26_Witness ==
    /\ \A w \in Workers : wpc[w] = "returned"
    /\ statFailed = {5}
    /\ stats.TotalDirs > 0
    /\ totalFiles = 2
    /\ processedFiles = 1 /\ stats.TotalFiles = 1

\* C27: pathChan is closed by the step in which the producer returns and by
\* no other; the producer never returns without closing it; once closed it
\* stays closed, the producer takes no further step, and the channel only
\* loses elements.
C27_ClosedOnceAfterLastSend ==
    [][/\ (~chanClosed /\ chanClosed')
            => prodpc = "walk" /\ prodpc' = "returned"
       /\ prodpc' = "returned" => chanClosed'
       /\ chanClosed
            => /\ chanClosed'
               /\ prodpc' = prodpc /\ prodIdx' = prodIdx
               /\ pathChan' \in {pathChan, SubSeq(pathChan, 2, Len(pathChan))}]_vars

\* the producer has returned and closed the channel with a path still in it
C27_Witness ==
    /\ prodpc = "returned" /\ chanClosed
    /\ pathChan # <<>>
    /\ prodIdx = Len(Calls) + 1

\* every item of tracker h is a file of set S with its own extension
ItemsFrom(h, S) ==
    \A i \in 1..Len(h) : h[i].Path \in S /\ h[i].Type = extOf[h[i].Path]

\* C28: between merges, the extensions that have a per-type tracker are the
\* extensions TypeFreq counts at least once; the items of the tracker of
\* extension e are merged files of type e; every item of the global tracker
\* is a merged file and carries the normalized extension of its path.
C28_TrackersMatchTypes ==
    ~crashed =>
        /\ \A e \in DOMAIN stats.TypeFreq \cup DOMAIN stats.LargestByType :
              e \in DOMAIN stats.LargestByType <=> Get(stats.TypeFreq, e) > 0
        /\ \A e \in DOMAIN stats.LargestByType :
              /\ ItemsFrom(stats.LargestByType[e], mergedOfType(e))
              /\ \A i \in 1..Len(stats.LargestByType[e]) :
                    stats.LargestByType[e][i].Type = e
        /\ ItemsFrom(stats.LargestFiles, mergedFiles)

\* with one file kept, two files written .TXT and .txt share a tracker that
\* evicted the smaller, and a file without extension has its own
C28_Witness ==
    /\ maxFiles = 1
    /\ mergedFiles = {2, 5, 7}
    /\ DOMAIN stats.LargestByType = {extOf[5], NoExtension}
    /\ stats.LargestByType[extOf[2]] = <<FileSize(5, Tree[5].size, extOf[5])>>
    /\ stats.LargestFiles = <<FileSize(5, Tree[5].size, extOf[5])>>

(***************************************************************************)
(* Offers to the global tracker alone: files of four sizes, one after the  *)
(* other.                                                                  *)
(***************************************************************************)
HeapSizes == {Tree[p].size : p \in {2, 3, 5, 8}}

InitHeap ==
    /\ InitIdle
    /\ countArg \in {<<n>> : n \in 1..MaxHeapCount}
    /\ maxFiles = flagCount(countArg)
    /\ root = 1
    /\ rootOk = TRUE
    /\ unreadable = {}
    /\ mainpc = "heap"

\* processFile, lines 552-557, for a file of the given size
OfferLargest(size) ==
    /\ mainpc = "heap"
    /\ Cardinality(merged) < MaxHeapOffers
    /\ LET f == FileSize(Cardinality(merged) + 1, size, NoExtension)
       IN /\ stats' = [stats EXCEPT !.LargestFiles = offer(@, maxFiles, f)]
          /\ merged' = merged \cup {f}
    /\ UNCHANGED <<maxFiles, clock, crashed, fsVars, mainVars, groupVars,
                   chanVars, prodVars, workVars, repVars, ui>>

NextHeap == \E size \in HeapSizes : OfferLargest(size)

SpecHeap == InitHeap /\ [][NextHeap]_vars

\* no element of h is smaller than its parent (j-1)/2
HeapOrdered(h) ==
    \A j \in 1..(Len(h) - 1) : ~Less(h, j, (j - 1) \div 2)

\* the elements of tracker h
Items(h) == {h[i] : i \in 1..Len(h)}

\* C29: after every offer the slice of the tracker is in min-heap order on
\* Size, and its element 0 has the least size of the items it holds.
C29_MinHeapOrder ==
    LET h == stats.LargestFiles
    IN /\ HeapOrdered(h)
       /\ \A x \in Items(h) : At(h, 0).Size <= x.Size
       /\ Items(h) \subseteq merged

\* a full tracker of three or more items has evicted, and holds items of
\* three different sizes
C29_Witness ==
    LET h == stats.LargestFiles
    IN /\ Len(h) = maxFiles /\ Len(h) >= 3
       /\ Cardinality(merged \ Items(h)) >= 2
       /\ Cardinality({x.Size : x \in Items(h)}) >= 3

====
